---- MODULE Spec2Model ----
(***************************************************************************)
(* Model of pkg/app2/idmanager: Manager, a table from uint16 keys to       *)
(* values guarded by one sync.RWMutex, with the cursor lstID used by       *)
(* ReserveNextID.  Every exported method is split at its lock, its reads   *)
(* of the table and its writes, so that the mutual exclusion is something  *)
(* the lock provides and not something the model assumes.                  *)
(***************************************************************************)
EXTENDS Integers, FiniteSets, Sequences, TLC

\* ---------------------------------------------------------------- bounds
\* Size of the key space (uint16 has 65536 keys; arithmetic is % NumKeys).
NumKeys == 4
\* Number of goroutines that call the manager.
Concurrency == 3
\* Number of goroutines that reserve and release ids over and over.
NumReservers == 2

\* ------------------------------------------------------------- constants
\* The nil interface value stored by a reservation.
Nil == 0

Keys == 0 .. (NumKeys - 1)
\* The two payloads "value" and "value2" of the tests.
Payloads == {1, 2}
Vals == {Nil} \cup Payloads
Procs == 1 .. Concurrency
\* The goroutine of the tests' "simple call" runs.
Main == CHOOSE p \in Procs : \A q \in Procs : p <= q
Reservers == {p \in Procs : p <= NumReservers}

\* Errors, by the text of the error the source constructs.
NoError == "nil"
errNoMoreAvailableValues == "no more available values"
errValueAlreadyExists == "value already exists"
errNoValue == "no value with id"
errNotSet == "value is not set"
errNotReserved == "id is not reserved"

VARIABLES
  values,   \* Manager.values: a function whose domain is the set of present keys
  lstID,    \* Manager.lstID: the cursor
  mx,       \* Manager.mx: [w |-> a writer holds it, r |-> number of readers]
  frees,    \* keys for which a release closure has been returned
  pc,       \* position of each goroutine in the method it runs
  args,     \* method and arguments of the call each goroutine runs
  loc,      \* the method's local variables (nxtID; v, ok; l, ok; lis, ok)
  res       \* what the call returned to the goroutine

vars == <<values, lstID, mx, frees, pc, args, loc, res>>

\* ------------------------------------------------------- the Go map
\* A lookup whose ok is true only for a non-nil value.
HasNonNil(m, id) == id \in DOMAIN m /\ m[id] # Nil

Has(m, id) == id \in DOMAIN m
Lookup(m, id) == IF id \in DOMAIN m THEN m[id] ELSE Nil
Store(m, id, v) == [k \in DOMAIN m \cup {id} |-> IF k = id THEN v ELSE m[k]]
\* A delete that leaves the entry in the map.
DeleteNothing(m, id) == m

Delete(m, id) == [k \in DOMAIN m \ {id} |-> m[k]]
EmptyMap == [k \in {} |-> Nil]

\* ------------------------------------------------------- records
NoArgs == [op |-> "none", id |-> 0, v |-> Nil]
NoLoc == [id |-> 0, v |-> Nil, ok |-> FALSE]
NoRes == [err |-> "none", id |-> {}, v |-> Nil, ok |-> FALSE, free |-> {}]
Ret(err, id, v, ok, free) == [err |-> err, id |-> id, v |-> v, ok |-> ok, free |-> free]

\* ------------------------------------------------------- sync.RWMutex
Unlocked == [w |-> FALSE, r |-> 0]
\* Lock() that does not wait for the holder.
CanLockNoWait(m) == TRUE

CanLock(m) == ~m.w /\ m.r = 0
CanRLock(m) == ~m.w

\* ------------------------------------------------------- New
Init ==
  /\ values = EmptyMap
  /\ lstID = 0
  /\ mx = Unlocked
  /\ frees = {}
  /\ pc = [p \in Procs |-> "idle"]
  /\ args = [p \in Procs |-> NoArgs]
  /\ loc = [p \in Procs |-> NoLoc]
  /\ res = [p \in Procs |-> NoRes]

\* ------------------------------------------------------- calls
\* A goroutine enters a method: it stands before the method's Lock/RLock.
Call(p, o, id, v) ==
  /\ pc[p] = "idle"
  /\ pc' = [pc EXCEPT ![p] = "call"]
  /\ args' = [args EXCEPT ![p] = [op |-> o, id |-> id, v |-> v]]
  /\ UNCHANGED <<values, lstID, mx, frees, loc, res>>

\* m.mx.Lock() of ReserveNextID, Pop, Add, Set and the release closure.
Lock(p) ==
  /\ pc[p] = "call"
  /\ args[p].op \in {"ReserveNextID", "Pop", "Add", "Set", "free"}
  /\ CanLock(mx)
  /\ mx' = [mx EXCEPT !.w = TRUE]
  /\ pc' = [pc EXCEPT ![p] = "locked"]
  /\ UNCHANGED <<values, lstID, frees, args, loc, res>>

\* A return path that leaves the method without m.mx.Unlock().
UnlockForgets(p) ==
  /\ pc[p] = "unlock"
  /\ pc' = [pc EXCEPT ![p] = "done"]
  /\ UNCHANGED <<values, lstID, mx, frees, args, loc, res>>

\* m.mx.Unlock() followed by the return statement, on every path of
\* ReserveNextID, Pop, Add, Set and the release closure.
Unlock(p) ==
  /\ pc[p] = "unlock"
  /\ mx' = [mx EXCEPT !.w = FALSE]
  /\ pc' = [pc EXCEPT ![p] = "done"]
  /\ UNCHANGED <<values, lstID, frees, args, loc, res>>

\* The goroutine drops what the call returned and is ready to call again.
Return(p) ==
  /\ pc[p] = "done"
  /\ pc' = [pc EXCEPT ![p] = "idle"]
  /\ args' = [args EXCEPT ![p] = NoArgs]
  /\ res' = [res EXCEPT ![p] = NoRes]
  /\ UNCHANGED <<values, lstID, mx, frees, loc>>

\* ------------------------------------------------------- ReserveNextID
\* The for loop: the first key after lst, in increasing order with
\* wrap-around, that is not in the table; lst itself when there is none.
RECURSIVE ScanFrom(_, _, _)
ScanFrom(m, lst, nxt) ==
  IF nxt = lst THEN nxt
  ELSE IF ~Has(m, nxt) THEN nxt
  ELSE ScanFrom(m, lst, (nxt + 1) % NumKeys)

\* A scan that takes the lowest free key of the key space, whatever lst is.
ScanNxtIDLowest(m, lst) ==
  IF \A k \in Keys : k \in DOMAIN m THEN lst
  ELSE CHOOSE k \in Keys : k \notin DOMAIN m /\ \A j \in Keys : j < k => j \in DOMAIN m

\* A scan that takes lst+1 without looking it up in the table.
ScanNxtIDNoLookup(m, lst) == (lst + 1) % NumKeys

ScanNxtID(m, lst) == ScanFrom(m, lst, (lst + 1) % NumKeys)

ReserveNextID_Scan(p) ==
  /\ pc[p] = "locked"
  /\ args[p].op = "ReserveNextID"
  /\ loc' = [loc EXCEPT ![p] = [id |-> ScanNxtID(values, lstID), v |-> Nil, ok |-> FALSE]]
  /\ pc' = [pc EXCEPT ![p] = "read"]
  /\ UNCHANGED <<values, lstID, mx, frees, args, res>>

ReserveNextID_Ret(p) ==
  /\ pc[p] = "read"
  /\ args[p].op = "ReserveNextID"
  /\ IF loc[p].id = lstID
       THEN /\ res' = [res EXCEPT ![p] = Ret(errNoMoreAvailableValues, {}, Nil, FALSE, {})]
            /\ UNCHANGED <<values, lstID, frees>>
       ELSE /\ values' = Store(values, loc[p].id, Nil)
            /\ lstID' = loc[p].id
            /\ frees' = frees \cup {loc[p].id}
            /\ res' = [res EXCEPT ![p] = Ret(NoError, {loc[p].id}, Nil, FALSE, {loc[p].id})]
  /\ UNCHANGED mx
  /\ loc' = [loc EXCEPT ![p] = NoLoc]
  /\ pc' = [pc EXCEPT ![p] = "unlock"]
  /\ UNCHANGED args

\* ------------------------------------------------------- Pop
Pop_Read(p) ==
  /\ pc[p] = "locked"
  /\ args[p].op = "Pop"
  /\ loc' = [loc EXCEPT ![p] = [id |-> 0, v |-> Lookup(values, args[p].id),
                                ok |-> Has(values, args[p].id)]]
  /\ pc' = [pc EXCEPT ![p] = "read"]
  /\ UNCHANGED <<values, lstID, mx, frees, args, res>>

Pop_Ret(p) ==
  /\ pc[p] = "read"
  /\ args[p].op = "Pop"
  /\ IF ~loc[p].ok
       THEN /\ res' = [res EXCEPT ![p] = Ret(errNoValue, {}, Nil, FALSE, {})]
            /\ UNCHANGED values
       ELSE IF loc[p].v = Nil
         THEN /\ res' = [res EXCEPT ![p] = Ret(errNotSet, {}, Nil, FALSE, {})]
              /\ UNCHANGED values
         ELSE /\ values' = Delete(values, args[p].id)
              /\ res' = [res EXCEPT ![p] = Ret(NoError, {}, loc[p].v, FALSE, {})]
  /\ UNCHANGED mx
  /\ loc' = [loc EXCEPT ![p] = NoLoc]
  /\ pc' = [pc EXCEPT ![p] = "unlock"]
  /\ UNCHANGED <<lstID, frees, args>>

\* ------------------------------------------------------- Add
Add_Read(p) ==
  /\ pc[p] = "locked"
  /\ args[p].op = "Add"
  /\ loc' = [loc EXCEPT ![p] = [id |-> 0, v |-> Nil, ok |-> Has(values, args[p].id)]]
  /\ pc' = [pc EXCEPT ![p] = "read"]
  /\ UNCHANGED <<values, lstID, mx, frees, args, res>>

\* An Add that also moves the cursor to the key it stored.
Add_RetMovesCursor(p) ==
  /\ pc[p] = "read"
  /\ args[p].op = "Add"
  /\ IF loc[p].ok
       THEN /\ res' = [res EXCEPT ![p] = Ret(errValueAlreadyExists, {}, Nil, FALSE, {})]
            /\ UNCHANGED <<values, frees, lstID>>
       ELSE /\ values' = Store(values, args[p].id, args[p].v)
            /\ frees' = frees \cup {args[p].id}
            /\ lstID' = args[p].id
            /\ res' = [res EXCEPT ![p] = Ret(NoError, {}, Nil, FALSE, {args[p].id})]
  /\ UNCHANGED mx
  /\ loc' = [loc EXCEPT ![p] = NoLoc]
  /\ pc' = [pc EXCEPT ![p] = "unlock"]
  /\ UNCHANGED args

Add_Ret(p) ==
  /\ pc[p] = "read"
  /\ args[p].op = "Add"
  /\ IF loc[p].ok
       THEN /\ res' = [res EXCEPT ![p] = Ret(errValueAlreadyExists, {}, Nil, FALSE, {})]
            /\ UNCHANGED <<values, frees>>
       ELSE /\ values' = Store(values, args[p].id, args[p].v)
            /\ frees' = frees \cup {args[p].id}
            /\ res' = [res EXCEPT ![p] = Ret(NoError, {}, Nil, FALSE, {args[p].id})]
  /\ UNCHANGED mx
  /\ loc' = [loc EXCEPT ![p] = NoLoc]
  /\ pc' = [pc EXCEPT ![p] = "unlock"]
  /\ UNCHANGED <<lstID, args>>

\* ------------------------------------------------------- Set
Set_Read(p) ==
  /\ pc[p] = "locked"
  /\ args[p].op = "Set"
  /\ loc' = [loc EXCEPT ![p] = [id |-> 0, v |-> Lookup(values, args[p].id),
                                ok |-> Has(values, args[p].id)]]
  /\ pc' = [pc EXCEPT ![p] = "read"]
  /\ UNCHANGED <<values, lstID, mx, frees, args, res>>

\* Set without the `l != nil` check: it overwrites a stored value.
Set_RetOverwrite(p) ==
  /\ pc[p] = "read"
  /\ args[p].op = "Set"
  /\ IF ~loc[p].ok
       THEN /\ res' = [res EXCEPT ![p] = Ret(errNotReserved, {}, Nil, FALSE, {})]
            /\ UNCHANGED values
       ELSE /\ values' = Store(values, args[p].id, args[p].v)
            /\ res' = [res EXCEPT ![p] = Ret(NoError, {}, Nil, FALSE, {})]
  /\ UNCHANGED mx
  /\ loc' = [loc EXCEPT ![p] = NoLoc]
  /\ pc' = [pc EXCEPT ![p] = "unlock"]
  /\ UNCHANGED <<lstID, frees, args>>

Set_Ret(p) ==
  /\ pc[p] = "read"
  /\ args[p].op = "Set"
  /\ IF ~loc[p].ok
       THEN /\ res' = [res EXCEPT ![p] = Ret(errNotReserved, {}, Nil, FALSE, {})]
            /\ UNCHANGED values
       ELSE IF loc[p].v # Nil
         THEN /\ res' = [res EXCEPT ![p] = Ret(errValueAlreadyExists, {}, Nil, FALSE, {})]
              /\ UNCHANGED values
         ELSE /\ values' = Store(values, args[p].id, args[p].v)
              /\ res' = [res EXCEPT ![p] = Ret(NoError, {}, Nil, FALSE, {})]
  /\ UNCHANGED mx
  /\ loc' = [loc EXCEPT ![p] = NoLoc]
  /\ pc' = [pc EXCEPT ![p] = "unlock"]
  /\ UNCHANGED <<lstID, frees, args>>

\* ------------------------------------------------------- Get
\* What Get returns for the (lis, ok) it read: <<value, found>>.
\* A Get that returns the ok of the lookup without the nil check.
GetResultRaw(lis, ok) == <<lis, ok>>

GetResult(lis, ok) == IF lis = Nil THEN <<Nil, FALSE>> ELSE <<lis, ok>>

Get_RLock(p) ==
  /\ pc[p] = "call"
  /\ args[p].op = "Get"
  /\ CanRLock(mx)
  /\ mx' = [mx EXCEPT !.r = @ + 1]
  /\ pc' = [pc EXCEPT ![p] = "locked"]
  /\ UNCHANGED <<values, lstID, frees, args, loc, res>>

Get_Read(p) ==
  /\ pc[p] = "locked"
  /\ args[p].op = "Get"
  /\ loc' = [loc EXCEPT ![p] = [id |-> 0, v |-> Lookup(values, args[p].id),
                                ok |-> Has(values, args[p].id)]]
  /\ mx' = [mx EXCEPT !.r = @ - 1]
  /\ pc' = [pc EXCEPT ![p] = "read"]
  /\ UNCHANGED <<values, lstID, frees, args, res>>

Get_Ret(p) ==
  /\ pc[p] = "read"
  /\ args[p].op = "Get"
  /\ res' = [res EXCEPT ![p] = Ret(NoError, {}, GetResult(loc[p].v, loc[p].ok)[1],
                                    GetResult(loc[p].v, loc[p].ok)[2], {})]
  /\ loc' = [loc EXCEPT ![p] = NoLoc]
  /\ pc' = [pc EXCEPT ![p] = "done"]
  /\ UNCHANGED <<values, lstID, mx, frees, args>>

\* ------------------------------------------------------- release closure
\* The func() that constructFreeFunc(id) returns; args[p].id is its bound id.
\* A release closure that removes its key only while no value is set.
Free_DeleteIfNil(p) ==
  /\ pc[p] = "locked"
  /\ args[p].op = "free"
  /\ values' = IF Lookup(values, args[p].id) = Nil THEN Delete(values, args[p].id) ELSE values
  /\ UNCHANGED mx
  /\ res' = [res EXCEPT ![p] = Ret(NoError, {}, Nil, FALSE, {})]
  /\ pc' = [pc EXCEPT ![p] = "unlock"]
  /\ UNCHANGED <<lstID, frees, args, loc>>

Free_Delete(p) ==
  /\ pc[p] = "locked"
  /\ args[p].op = "free"
  /\ values' = Delete(values, args[p].id)
  /\ UNCHANGED mx
  /\ res' = [res EXCEPT ![p] = Ret(NoError, {}, Nil, FALSE, {})]
  /\ pc' = [pc EXCEPT ![p] = "unlock"]
  /\ UNCHANGED <<lstID, frees, args, loc>>

\* ------------------------------------------------------- DoRange
\* loc[p].seen is the sequence of the visitor's calls so far, each
\* <<id, v, what next(id, v) returned>>.
RangeLoc(seen) == [id |-> 0, v |-> Nil, ok |-> FALSE, seen |-> seen]
RangeRet(seen) == [err |-> NoError, id |-> {}, v |-> Nil, ok |-> FALSE, free |-> {}, seen |-> seen]

\* The entries the range statement has not produced yet.
RangeRest(m, seen) == DOMAIN m \ {seen[i][1] : i \in 1 .. Len(seen)}

\* A loop that goes on after next returned false.
RangeMoreNoBreak(m, seen) == RangeRest(m, seen) # {}

\* The loop goes on: next has not returned false and an entry is left.
RangeMore(m, seen) ==
  /\ IF seen = <<>> THEN TRUE ELSE seen[Len(seen)][3]
  /\ RangeRest(m, seen) # {}

DoRange_RLock(p) ==
  /\ pc[p] = "call"
  /\ args[p].op = "DoRange"
  /\ CanRLock(mx)
  /\ mx' = [mx EXCEPT !.r = @ + 1]
  /\ loc' = [loc EXCEPT ![p] = RangeLoc(<<>>)]
  /\ pc' = [pc EXCEPT ![p] = "locked"]
  /\ UNCHANGED <<values, lstID, frees, args, res>>

\* One iteration: range yields the entry id (in no particular order) and
\* the visitor returns b.
DoRange_Next(p, id, b) ==
  /\ pc[p] = "locked"
  /\ args[p].op = "DoRange"
  /\ RangeMore(values, loc[p].seen)
  /\ id \in RangeRest(values, loc[p].seen)
  /\ loc' = [loc EXCEPT ![p] = RangeLoc(Append(loc[p].seen, <<id, values[id], b>>))]
  /\ UNCHANGED <<values, lstID, mx, frees, pc, args, res>>

DoRange_RUnlock(p) ==
  /\ pc[p] = "locked"
  /\ args[p].op = "DoRange"
  /\ ~RangeMore(values, loc[p].seen)
  /\ mx' = [mx EXCEPT !.r = @ - 1]
  /\ res' = [res EXCEPT ![p] = RangeRet(loc[p].seen)]
  /\ loc' = [loc EXCEPT ![p] = NoLoc]
  /\ pc' = [pc EXCEPT ![p] = "done"]
  /\ UNCHANGED <<values, lstID, frees, args>>

DoRange_Step(p) ==
  \/ DoRange_RLock(p)
  \/ \E id \in Keys, b \in BOOLEAN : DoRange_Next(p, id, b)
  \/ DoRange_RUnlock(p)

\* ------------------------------------------------------- specifications
\* Steps inside a method, the same in every specification.
Step(p) ==
  \/ Lock(p)
  \/ ReserveNextID_Scan(p)
  \/ ReserveNextID_Ret(p)
  \/ Pop_Read(p)
  \/ Pop_Ret(p)
  \/ Add_Read(p)
  \/ Add_Ret(p)
  \/ Set_Read(p)
  \/ Set_Ret(p)
  \/ Get_RLock(p)
  \/ Get_Read(p)
  \/ Get_Ret(p)
  \/ Free_Delete(p)
  \/ Unlock(p)
  \/ Return(p)

\* Spec: calls of every method with every argument, issued one after
\* another by goroutine Main.
CallAny(p) ==
  \/ Call(p, "ReserveNextID", 0, Nil)
  \/ \E id \in Keys : Call(p, "Pop", id, Nil)
  \/ \E id \in Keys, v \in Vals : Call(p, "Add", id, v)
  \/ \E id \in Keys, v \in Vals : Call(p, "Set", id, v)
  \/ \E id \in Keys : Call(p, "Get", id, Nil)
  \/ \E id \in frees : Call(p, "free", id, Nil)

Next ==
  \/ CallAny(Main)
  \/ \E p \in Procs : Step(p)

Spec == Init /\ [][Next]_vars

\* SpecReserve: NumReservers goroutines that concurrently, over and over,
\* reserve ids and invoke release closures returned earlier; no Pop, Add
\* or Set.
CallReserveOrFree(p) ==
  \/ Call(p, "ReserveNextID", 0, Nil)
  \/ \E id \in frees : Call(p, "free", id, Nil)

NextReserve ==
  \/ \E p \in Reservers : CallReserveOrFree(p)
  \/ \E p \in Reservers : Lock(p)
  \/ \E p \in Reservers : ReserveNextID_Scan(p)
  \/ \E p \in Reservers : ReserveNextID_Ret(p)
  \/ \E p \in Reservers : Free_Delete(p)
  \/ \E p \in Reservers : Unlock(p)
  \/ \E p \in Reservers : Return(p)

SpecReserve == Init /\ [][NextReserve]_vars

\* SpecConcReserve: "concurrent run" of TestIDManager_ReserveNextID: on a new
\* manager every goroutine calls ReserveNextID once and keeps its result.
NextConcReserve ==
  \/ \E p \in Procs : Call(p, "ReserveNextID", 0, Nil)
  \/ \E p \in Procs : Lock(p)
  \/ \E p \in Procs : ReserveNextID_Scan(p)
  \/ \E p \in Procs : ReserveNextID_Ret(p)
  \/ \E p \in Procs : Unlock(p)

SpecConcReserve == Init /\ [][NextConcReserve]_vars

\* SpecConcSet: "concurrent run" of TestIDManager_Set: the manager after New
\* and one ReserveNextID; every goroutine p calls Set(nextID, p) once.
ReservedID == ScanNxtID(EmptyMap, 0)

InitConcSet ==
  /\ values = Store(EmptyMap, ReservedID, Nil)
  /\ lstID = ReservedID
  /\ mx = Unlocked
  /\ frees = {ReservedID}
  /\ pc = [p \in Procs |-> "idle"]
  /\ args = [p \in Procs |-> NoArgs]
  /\ loc = [p \in Procs |-> NoLoc]
  /\ res = [p \in Procs |-> NoRes]

NextConcSet ==
  \/ \E p \in Procs : Call(p, "Set", ReservedID, p)
  \/ \E p \in Procs : Lock(p)
  \/ \E p \in Procs : Set_Read(p)
  \/ \E p \in Procs : Set_Ret(p)
  \/ \E p \in Procs : Unlock(p)

SpecConcSet == InitConcSet /\ [][NextConcSet]_vars

\* SpecConcAdd: "concurrent run" of TestIDManager_Add: on a new manager every
\* goroutine p calls Add(AddID, p) once.
AddID == 1

NextConcAdd ==
  \/ \E p \in Procs : Call(p, "Add", AddID, p)
  \/ \E p \in Procs : Lock(p)
  \/ \E p \in Procs : Add_Read(p)
  \/ \E p \in Procs : Add_Ret(p)
  \/ \E p \in Procs : Unlock(p)

SpecConcAdd == Init /\ [][NextConcAdd]_vars


\* SpecConcPop: "concurrent run" of TestIDManager_Pop: the manager holds
\* "value" under PopID; every goroutine calls Pop(PopID) once.
PopID == 1
PopValue == 1

InitConcPop ==
  /\ values = Store(EmptyMap, PopID, PopValue)
  /\ lstID = 0
  /\ mx = Unlocked
  /\ frees = {PopID}
  /\ pc = [p \in Procs |-> "idle"]
  /\ args = [p \in Procs |-> NoArgs]
  /\ loc = [p \in Procs |-> NoLoc]
  /\ res = [p \in Procs |-> NoRes]

NextConcPop ==
  \/ \E p \in Procs : Call(p, "Pop", PopID, Nil)
  \/ \E p \in Procs : Lock(p)
  \/ \E p \in Procs : Pop_Read(p)
  \/ \E p \in Procs : Pop_Ret(p)
  \/ \E p \in Procs : Unlock(p)

SpecConcPop == InitConcPop /\ [][NextConcPop]_vars


\* SpecAll: Spec and, in addition, calls of DoRange with a visitor that
\* returns true or false as it likes.
NextAll ==
  \/ CallAny(Main)
  \/ Call(Main, "DoRange", 0, Nil)
  \/ \E p \in Procs : Step(p)
  \/ \E p \in Procs : DoRange_Step(p)

SpecAll == Init /\ [][NextAll]_vars


\* SpecLive: on a new manager every goroutine makes one call of any method
\* (or of a release closure returned to another goroutine) on key AddID and
\* keeps its result; the visitors of DoRange only return true or false.
\* The Go scheduler runs every runnable goroutine, and a goroutine that
\* waits in Lock/RLock is runnable again once the lock is free: weak
\* fairness of each goroutine's steps inside a call.
CallLive(p) ==
  \/ Call(p, "ReserveNextID", 0, Nil)
  \/ Call(p, "Pop", AddID, Nil)
  \/ Call(p, "Add", AddID, p)
  \/ Call(p, "Set", AddID, p)
  \/ Call(p, "Get", AddID, Nil)
  \/ Call(p, "DoRange", 0, Nil)
  \/ \E id \in frees : Call(p, "free", id, Nil)

StepLive(p) ==
  \/ Lock(p)
  \/ ReserveNextID_Scan(p)
  \/ ReserveNextID_Ret(p)
  \/ Pop_Read(p)
  \/ Pop_Ret(p)
  \/ Add_Read(p)
  \/ Add_Ret(p)
  \/ Set_Read(p)
  \/ Set_Ret(p)
  \/ Get_RLock(p)
  \/ Get_Read(p)
  \/ Get_Ret(p)
  \/ Free_Delete(p)
  \/ Unlock(p)
  \/ DoRange_Step(p)

NextLive ==
  \/ \E p \in Procs : CallLive(p)
  \/ \E p \in Procs : StepLive(p)

FairLive == \A p \in Procs : WF_vars(StepLive(p))

SpecLive == Init /\ [][NextLive]_vars /\ FairLive


\* SpecConcAddSet: the concurrent runs of TestIDManager_Add and
\* TestIDManager_Set together: on a new manager, or on the manager after
\* New and one ReserveNextID, every goroutine p calls once Add(AddID, p) or
\* Set(AddID, p).
InitConcAddSet == Init \/ InitConcSet

NextConcAddSet ==
  \/ \E p \in Procs : Call(p, "Add", AddID, p)
  \/ \E p \in Procs : Call(p, "Set", AddID, p)
  \/ \E p \in Procs : Lock(p)
  \/ \E p \in Procs : Add_Read(p)
  \/ \E p \in Procs : Add_Ret(p)
  \/ \E p \in Procs : Set_Read(p)
  \/ \E p \in Procs : Set_Ret(p)
  \/ \E p \in Procs : Unlock(p)

SpecConcAddSet == InitConcAddSet /\ [][NextConcAddSet]_vars


\* SpecStale: on a new manager goroutines allocate a key, by ReserveNextID
\* or by Add(AddID, p), and keep what the call returned, the key and its
\* release closure, for use; other goroutines invoke release closures
\* returned so far, any number of times.
ReturnFree(p) ==
  /\ args[p].op = "free"
  /\ Return(p)

NextStale ==
  \/ \E p \in Procs : Call(p, "ReserveNextID", 0, Nil)
  \/ \E p \in Procs : Call(p, "Add", AddID, p)
  \/ \E p \in Procs, id \in frees : Call(p, "free", id, Nil)
  \/ \E p \in Procs : Lock(p)
  \/ \E p \in Procs : ReserveNextID_Scan(p)
  \/ \E p \in Procs : ReserveNextID_Ret(p)
  \/ \E p \in Procs : Add_Read(p)
  \/ \E p \in Procs : Add_Ret(p)
  \/ \E p \in Procs : Free_Delete(p)
  \/ \E p \in Procs : Unlock(p)
  \/ \E p \in Procs : ReturnFree(p)

SpecStale == Init /\ [][NextStale]_vars

\* ======================================================= properties
\* The step in which method o of goroutine p decides what it returns and
\* writes the table, still holding the lock.
RetStep(p, o) == pc[p] = "read" /\ args[p].op = o /\ pc'[p] = "unlock"

\* The call of method o by goroutine p has returned; res[p] is its result.
Returned(p, o) == pc[p] = "done" /\ args[p].op = o

Succeeded(p, o) == Returned(p, o) /\ res[p].err = NoError

AllReturned == \A p \in Procs : pc[p] = "done"

\* m2 is m except at key id.
SameExcept(m, m2, id) ==
  /\ DOMAIN m2 \ {id} = DOMAIN m \ {id}
  /\ \A k \in DOMAIN m \ {id} : m2[k] = m[k]

\* The keys after lst in the cyclic order lst+1, lst+2, ..., numbered by
\* their distance d from lst; distance NumKeys is lst itself.
KeyAt(lst, d) == (lst + d) % NumKeys
AbsentDist(m, lst) == {d \in 1 .. NumKeys : KeyAt(lst, d) \notin DOMAIN m}
FirstAbsent(m, lst) ==
  KeyAt(lst, CHOOSE d \in AbsentDist(m, lst) : \A e \in AbsentDist(m, lst) : d <= e)

\* What Get returns on table m for key id.
GetOn(m, id) == GetResult(Lookup(m, id), Has(m, id))

\* C1: in every interleaving of concurrent ReserveNextID calls and release
\* closures, a successful ReserveNextID returns a key that is not in the
\* table when it is claimed; so no call returns a key that an earlier call
\* returned and that has not been released since.
C1_ReservedKeysDistinct ==
  [][\A p \in Reservers :
       (RetStep(p, "ReserveNextID") /\ res'[p].err = NoError) =>
         /\ res'[p].id # {}
         /\ \A k \in res'[p].id : ~Has(values, k)
         /\ \A q \in Reservers \ {p} :
              (Succeeded(q, "ReserveNextID") /\ res[q].id \subseteq DOMAIN values)
                => res'[p].id # res[q].id]_vars

\* Two goroutines hold different reserved keys, both still in the table.
C1_Witness ==
  \E p, q \in Reservers :
    /\ p # q
    /\ Succeeded(p, "ReserveNextID") /\ Succeeded(q, "ReserveNextID")
    /\ res[p].id # res[q].id
    /\ (res[p].id \cup res[q].id) \subseteq DOMAIN values

\* C2: a successful ReserveNextID returns the first key absent from the
\* table in the cyclic order lstID+1, lstID+2, ..., stores nil under it,
\* changes no other entry, sets lstID to it and returns a release closure
\* for it; while the keys 1..lstID are exactly the present ones (a new
\* manager that was only reserved on) the key is lstID+1.
C2_ReserveFirstAbsent ==
  [][\A p \in Procs :
       (RetStep(p, "ReserveNextID") /\ res'[p].err = NoError) =>
         /\ AbsentDist(values, lstID) # {}
         /\ res'[p].id = {FirstAbsent(values, lstID)}
         /\ res'[p].free = res'[p].id
         /\ \A k \in res'[p].id :
              /\ Has(values', k) /\ values'[k] = Nil
              /\ SameExcept(values, values', k)
              /\ lstID' = k
              /\ (DOMAIN values = 1 .. lstID /\ lstID + 1 < NumKeys) => k = lstID + 1]_vars

\* A reservation that wrapped around the key space: it returned key 0,
\* which is after the highest key, and the highest key is in the table.
C2_Witness ==
  \E p \in Procs :
    /\ Succeeded(p, "ReserveNextID")
    /\ res[p].id = {0}
    /\ lstID = 0
    /\ Has(values, 0) /\ values[0] = Nil
    /\ Has(values, NumKeys - 1)

\* C3: when every key is in the table, ReserveNextID returns
\* errNoMoreAvailableValues with a nil id and a nil release closure and
\* leaves the table and the cursor as they were.
C3_ReserveOnFull ==
  [][\A p \in Procs :
       (RetStep(p, "ReserveNextID") /\ DOMAIN values = Keys) =>
         /\ res'[p].err = errNoMoreAvailableValues
         /\ res'[p].id = {}
         /\ res'[p].free = {}
         /\ values' = values
         /\ lstID' = lstID]_vars

\* A ReserveNextID has failed on a full table.
C3_Witness ==
  \E p \in Procs :
    /\ Returned(p, "ReserveNextID")
    /\ res[p].err = errNoMoreAvailableValues
    /\ DOMAIN values = Keys

\* C4: ReserveNextID returns errNoMoreAvailableValues only when every key
\* is in the table: whenever some key is absent, it succeeds.
C4_FailsOnlyWhenFull ==
  [][\A p \in Procs :
       (RetStep(p, "ReserveNextID") /\ DOMAIN values # Keys) =>
         res'[p].err = NoError]_vars

\* C5: when Concurrency goroutines each call ReserveNextID once on a new
\* manager and all have returned, every call succeeded, the returned keys
\* are pairwise distinct and are the keys 1..Concurrency (counted in the
\* key space, % NumKeys), each of them is in the table with a nil value,
\* and lstID is Concurrency.
C5_ConcurrentReserve ==
  AllReturned =>
    /\ \A p \in Procs : Succeeded(p, "ReserveNextID")
    /\ \A p, q \in Procs : p # q => res[p].id # res[q].id
    /\ UNION {res[p].id : p \in Procs} = {i % NumKeys : i \in 1 .. Concurrency}
    /\ \A k \in UNION {res[p].id : p \in Procs} : Has(values, k) /\ values[k] = Nil
    /\ lstID = Concurrency % NumKeys

\* All concurrent reservations have returned, the last one to goroutine 1.
C5_Witness ==
  /\ AllReturned
  /\ \A p \in Procs : Returned(p, "ReserveNextID")
  /\ res[1].id = {lstID}

\* C6: Pop(id) on an absent key returns the "no value" error, on a key
\* stored with nil the "not set" error, and leaves the table as it was in
\* both cases; on a key with a non-nil value it returns that value and
\* removes the entry and nothing else, so that Get(id) on the resulting
\* table returns (nil, false).
C6_Pop ==
  [][\A p \in Procs :
       RetStep(p, "Pop") =>
         /\ ~Has(values, args[p].id) =>
              res'[p].err = errNoValue /\ values' = values
         /\ (Has(values, args[p].id) /\ values[args[p].id] = Nil) =>
              res'[p].err = errNotSet /\ values' = values
         /\ (Has(values, args[p].id) /\ values[args[p].id] # Nil) =>
              /\ res'[p].err = NoError
              /\ res'[p].v = values[args[p].id]
              /\ ~Has(values', args[p].id)
              /\ SameExcept(values, values', args[p].id)
              /\ GetOn(values', args[p].id) = <<Nil, FALSE>>]_vars

\* A Pop has returned a stored value and its key is gone.
C6_Witness ==
  \E p \in Procs :
    /\ Succeeded(p, "Pop")
    /\ res[p].v \in Payloads
    /\ ~Has(values, args[p].id)

\* C7 as stated: Add(id, v) on an absent key succeeds, returns a release
\* closure and makes Get(id) return (v, true); on a present key it fails
\* with errValueAlreadyExists, returns no closure and leaves the table.
C7_AddAsStated ==
  [][\A p \in Procs :
       RetStep(p, "Add") =>
         /\ ~Has(values, args[p].id) =>
              /\ res'[p].err = NoError
              /\ res'[p].free = {args[p].id}
              /\ GetOn(values', args[p].id) = <<args[p].v, TRUE>>
         /\ Has(values, args[p].id) =>
              /\ res'[p].err = errValueAlreadyExists
              /\ res'[p].free = {}
              /\ values' = values]_vars

\* C7 amended: Add(id, v) on an absent key succeeds, returns a release
\* closure and stores v under id, changing no other entry; Get(id) then
\* returns (v, true) when v is not nil, and (nil, false) when v is nil.
\* On a present key (nil or non-nil value) Add fails with
\* errValueAlreadyExists, returns no closure and leaves the table.
C7_Add ==
  [][\A p \in Procs :
       RetStep(p, "Add") =>
         /\ ~Has(values, args[p].id) =>
              /\ res'[p].err = NoError
              /\ res'[p].free = {args[p].id}
              /\ Has(values', args[p].id) /\ values'[args[p].id] = args[p].v
              /\ SameExcept(values, values', args[p].id)
              /\ args[p].v # Nil => GetOn(values', args[p].id) = <<args[p].v, TRUE>>
              /\ args[p].v = Nil => GetOn(values', args[p].id) = <<Nil, FALSE>>
         /\ Has(values, args[p].id) =>
              /\ res'[p].err = errValueAlreadyExists
              /\ res'[p].free = {}
              /\ values' = values]_vars

\* An Add has been refused on a key that holds another value.
C7_Witness ==
  \E p \in Procs :
    /\ Returned(p, "Add")
    /\ res[p].err = errValueAlreadyExists
    /\ Has(values, args[p].id)
    /\ values[args[p].id] \in Payloads \ {args[p].v}
    /\ args[p].v \in Payloads

\* C8 as stated: Set(id, v) on an absent key fails with "not reserved" and
\* creates no entry; on a key with a non-nil value it fails with
\* errValueAlreadyExists and leaves the value; on a key stored with nil it
\* succeeds and from then on the key holds a non-nil value, so that every
\* further Set fails with errValueAlreadyExists until the key is removed.
C8_SetAsStated ==
  [][\A p \in Procs :
       RetStep(p, "Set") =>
         /\ ~Has(values, args[p].id) =>
              res'[p].err = errNotReserved /\ values' = values
         /\ (Has(values, args[p].id) /\ values[args[p].id] # Nil) =>
              res'[p].err = errValueAlreadyExists /\ values' = values
         /\ (Has(values, args[p].id) /\ values[args[p].id] = Nil) =>
              /\ res'[p].err = NoError
              /\ Has(values', args[p].id) /\ values'[args[p].id] # Nil]_vars

\* C8 amended: as C8, but a successful Set(id, v) stores v, and it is only
\* for a non-nil v that the key then holds a non-nil value and refuses
\* every further Set; after Set(id, nil) the key is still stored with nil.
C8_Set ==
  [][\A p \in Procs :
       RetStep(p, "Set") =>
         /\ ~Has(values, args[p].id) =>
              res'[p].err = errNotReserved /\ values' = values
         /\ (Has(values, args[p].id) /\ values[args[p].id] # Nil) =>
              res'[p].err = errValueAlreadyExists /\ values' = values
         /\ (Has(values, args[p].id) /\ values[args[p].id] = Nil) =>
              /\ res'[p].err = NoError
              /\ Has(values', args[p].id) /\ values'[args[p].id] = args[p].v
              /\ SameExcept(values, values', args[p].id)
              /\ args[p].v # Nil => values'[args[p].id] # Nil]_vars

\* A Set has been refused on a key that holds another non-nil value.
C8_Witness ==
  \E p \in Procs :
    /\ Returned(p, "Set")
    /\ res[p].err = errValueAlreadyExists
    /\ args[p].v \in Payloads
    /\ Has(values, args[p].id)
    /\ values[args[p].id] \in Payloads \ {args[p].v}

C10_ConcurrentAdd ==
  AllReturned =>
    \E w \in Procs :
      /\ Succeeded(w, "Add") /\ res[w].free = {AddID}
      /\ \A q \in Procs \ {w} :
           Returned(q, "Add") /\ res[q].err = errValueAlreadyExists /\ res[q].free = {}
      /\ Has(values, AddID) /\ values[AddID] = args[w].v

\* All concurrent Adds have returned and a goroutine other than 1 won.
C10_Witness ==
  /\ AllReturned
  /\ \A p \in Procs : Returned(p, "Add")
  /\ res[1].err = errValueAlreadyExists

\* C11: when Concurrency goroutines each call Pop(PopID) once on the key
\* that holds a value and all have returned, exactly one call returned nil
\* together with the stored value, every other call returned an error (the
\* "no value" error), and the key is no longer in the table.
C11_ConcurrentPop ==
  AllReturned =>
    /\ \E w \in Procs :
         /\ Succeeded(w, "Pop") /\ res[w].v = PopValue
         /\ \A q \in Procs \ {w} : Returned(q, "Pop") /\ res[q].err = errNoValue
    /\ ~Has(values, PopID)

\* All concurrent Pops have returned and a goroutine other than 1 got the value.
C11_Witness ==
  /\ AllReturned
  /\ \A p \in Procs : Returned(p, "Pop")
  /\ res[1].err = errNoValue

\* The step in which Get of goroutine p builds what it returns.
GetRetStep(p) == pc[p] = "read" /\ args[p].op = "Get" /\ pc'[p] = "done"

\* C12: Get(id) returns (value, true) with the stored value exactly when
\* id holds a non-nil value; for an absent id and for an id stored with nil
\* it returns the same (nil, false); no step of Get changes the table or
\* the cursor.
C12_Get ==
  [][\A p \in Procs :
       /\ GetRetStep(p) =>
            /\ (Has(values, args[p].id) /\ values[args[p].id] # Nil) =>
                 res'[p].v = values[args[p].id] /\ res'[p].ok = TRUE
            /\ ~(Has(values, args[p].id) /\ values[args[p].id] # Nil) =>
                 res'[p].v = Nil /\ res'[p].ok = FALSE
            /\ res'[p].ok <=> (Has(values, args[p].id) /\ values[args[p].id] # Nil)
       /\ ((args[p].op = "Get" \/ args'[p].op = "Get") /\ pc'[p] # pc[p]) =>
            values' = values /\ lstID' = lstID]_vars

\* Get has returned (nil, false) for a key that is in the table with nil.
C12_Witness ==
  \E p \in Procs :
    /\ Returned(p, "Get")
    /\ res[p].v = Nil /\ res[p].ok = FALSE
    /\ Has(values, args[p].id) /\ values[args[p].id] = Nil

\* The step in which the release closure invoked by goroutine p deletes.
FreeStep(p) == pc[p] = "locked" /\ args[p].op = "free" /\ pc'[p] = "unlock"

\* C13: a release closure for id (one that ReserveNextID or Add returned)
\* leaves id absent whether id was stored with nil or with a value, changes
\* no other entry and not the cursor, and reports no error; when id is
\* already absent it changes nothing, so a second invocation has the effect
\* of the first.
C13_Release ==
  [][\A p \in Procs :
       FreeStep(p) =>
         /\ args[p].id \in frees
         /\ ~Has(values', args[p].id)
         /\ SameExcept(values, values', args[p].id)
         /\ lstID' = lstID
         /\ res'[p].err = NoError
         /\ ~Has(values, args[p].id) => values' = values
         /\ Delete(values', args[p].id) = values']_vars

\* A release closure has returned; its key is absent and another key still
\* holds its value.
C13_Witness ==
  \E p \in Procs :
    /\ Returned(p, "free")
    /\ res[p].err = NoError
    /\ ~Has(values, args[p].id)
    /\ \E k \in DOMAIN values : values[k] \in Payloads

\* The step in which DoRange of goroutine p leaves its loop and returns.
RangeRetStep(p) == pc[p] = "locked" /\ args[p].op = "DoRange" /\ pc'[p] = "done"

RangeIDs(seen) == {seen[i][1] : i \in 1 .. Len(seen)}

\* C14: the visitor of DoRange is called at most once per key, only for keys
\* in the table and with the value stored under the key (nil for a reserved
\* key); it is not called again after it returned false; when it returned
\* true every time it was called exactly once for every key in the table;
\* no step of DoRange changes the table or the cursor.
C14_DoRange ==
  [][\A p \in Procs :
       /\ RangeRetStep(p) =>
            /\ \A i, j \in 1 .. Len(res'[p].seen) :
                 res'[p].seen[i][1] = res'[p].seen[j][1] => i = j
            /\ \A i \in 1 .. Len(res'[p].seen) :
                 /\ Has(values, res'[p].seen[i][1])
                 /\ res'[p].seen[i][2] = values[res'[p].seen[i][1]]
                 /\ i < Len(res'[p].seen) => res'[p].seen[i][3]
            /\ (\A i \in 1 .. Len(res'[p].seen) : res'[p].seen[i][3]) =>
                 /\ RangeIDs(res'[p].seen) = DOMAIN values
                 /\ Len(res'[p].seen) = Cardinality(DOMAIN values)
       /\ ((args[p].op = "DoRange" \/ args'[p].op = "DoRange") /\ <<pc[p], loc[p]>>' # <<pc[p], loc[p]>>) =>
            values' = values /\ lstID' = lstID]_vars

\* A DoRange whose visitor always returned true has returned, having seen a
\* reserved key with nil and a key with its value.
C14_Witness ==
  \E p \in Procs :
    /\ Returned(p, "DoRange")
    /\ \A i \in 1 .. Len(res[p].seen) : res[p].seen[i][3]
    /\ \E i, j \in 1 .. Len(res[p].seen) :
         res[p].seen[i][2] = Nil /\ res[p].seen[j][2] \in Payloads
    /\ RangeIDs(res[p].seen) = DOMAIN values

\* C15: lstID changes only in the step of a ReserveNextID that returns nil
\* as error, and then becomes the key that call returns; every step of Add,
\* Set, Pop, Get, DoRange and of a release closure, and a ReserveNextID that
\* returns errNoMoreAvailableValues, leave lstID as it is.
C15_CursorOnlyByReserve ==
  [][/\ lstID' # lstID =>
          \E p \in Procs :
            /\ RetStep(p, "ReserveNextID")
            /\ res'[p].err = NoError
            /\ res'[p].id = {lstID'}
     /\ \A p \in Procs :
          (args[p].op \in {"Add", "Set", "Pop", "Get", "DoRange", "free"} /\ pc'[p] # pc[p])
            => lstID' = lstID
     /\ \A p \in Procs :
          (RetStep(p, "ReserveNextID") /\ res'[p].err # NoError) => lstID' = lstID]_vars

\* A Pop has removed the very key the cursor points at; the cursor stays.
C15_Witness ==
  \E p \in Procs :
    /\ Succeeded(p, "Pop")
    /\ args[p].id = lstID
    /\ lstID # 0
    /\ ~Has(values, lstID)

\* The state of the slot of key k in table m.
Slot(m, k) == IF ~Has(m, k) THEN "absent" ELSE IF m[k] = Nil THEN "reserved" ELSE "occupied"

\* The step is not the store of an Add or Set that was passed nil.
NonNilStep == \A p \in Procs : (RetStep(p, "Add") \/ RetStep(p, "Set")) => args[p].v # Nil

\* C16: in steps of calls with non-nil values, for every key: absent becomes
\* reserved only by a successful ReserveNextID that returns the key, absent
\* becomes occupied only by a successful Add of the key, reserved becomes
\* occupied only by a successful Set of the key, a present key becomes
\* absent only by a successful Pop of the key or by a release closure of
\* the key, and an occupied key that stays in the table keeps its value (it
\* is never overwritten and never becomes reserved again).
C16_SlotLifecycle ==
  [][NonNilStep =>
       \A k \in Keys :
         /\ (Slot(values, k) = "absent" /\ Slot(values', k) = "reserved") =>
              \E p \in Procs : /\ RetStep(p, "ReserveNextID")
                               /\ res'[p].err = NoError /\ res'[p].id = {k}
         /\ (Slot(values, k) = "absent" /\ Slot(values', k) = "occupied") =>
              \E p \in Procs : /\ RetStep(p, "Add") /\ args[p].id = k
                               /\ res'[p].err = NoError /\ values'[k] = args[p].v
         /\ (Slot(values, k) = "reserved" /\ Slot(values', k) = "occupied") =>
              \E p \in Procs : /\ RetStep(p, "Set") /\ args[p].id = k
                               /\ res'[p].err = NoError /\ values'[k] = args[p].v
         /\ (Slot(values, k) # "absent" /\ Slot(values', k) = "absent") =>
              \E p \in Procs :
                \/ RetStep(p, "Pop") /\ args[p].id = k /\ res'[p].err = NoError
                \/ FreeStep(p) /\ args[p].id = k
         /\ (Slot(values, k) = "occupied" /\ Slot(values', k) # "absent") =>
              values'[k] = values[k]]_vars

\* A key went through reserved and occupied and was then popped, while
\* another key was added directly and still holds its value.
C16_Witness ==
  \E p \in Procs :
    /\ Succeeded(p, "Pop")
    /\ args[p].id = lstID
    /\ ~Has(values, lstID)
    /\ \E k \in DOMAIN values : values[k] \in Payloads /\ k # lstID

\* The goroutines that hold the write lock and the read lock by their
\* position in the code.
WriteHolders ==
  {p \in Procs : /\ args[p].op \in {"ReserveNextID", "Pop", "Add", "Set", "free"}
                 /\ pc[p] \in {"locked", "read", "unlock"}}
ReadHolders == {p \in Procs : args[p].op \in {"Get", "DoRange"} /\ pc[p] = "locked"}

\* C17: the lock is held exactly by the goroutines that are between the
\* Lock/RLock and the Unlock/RUnlock of a call (so a goroutine that
\* returned, on the success path or an error path, holds nothing, and at
\* most one writer or only readers hold it), and under fair scheduling
\* every started call of ReserveNextID, Pop, Add, Set, Get, DoRange and of
\* a release closure returns: a goroutine of SpecLive makes one call and
\* keeps its result, so from some point on every goroutine either never
\* called or has returned.
C17_LockReleased ==
  /\ [](/\ mx.w = (WriteHolders # {})
        /\ mx.r = Cardinality(ReadHolders)
        /\ Cardinality(WriteHolders) <= 1
        /\ WriteHolders # {} => ReadHolders = {})
  /\ <>[](\A p \in Procs : pc[p] \in {"idle", "done"})

\* Every goroutine returned, one from a release closure and one with an
\* error, and the lock is free.
C17_Witness ==
  /\ AllReturned
  /\ mx = Unlocked
  /\ \E p \in Procs : Returned(p, "free")
  /\ \E p \in Procs : res[p].err # NoError

\* All goroutines returned, at least one from Add and one from Set.
AddSetReturned ==
  /\ \A p \in Procs : Returned(p, "Add") \/ Returned(p, "Set")
  /\ \E p \in Procs : Returned(p, "Add")
  /\ \E p \in Procs : Returned(p, "Set")

OneSucceeded == Cardinality({p \in Procs : res[p].err = NoError}) = 1

\* C18 as stated: after concurrent Add and Set calls on one key exactly one
\* call succeeded and every other call returned errValueAlreadyExists.
C18_AddSetAsStated ==
  AddSetReturned =>
    /\ OneSucceeded
    /\ \A p \in Procs : res[p].err \in {NoError, errValueAlreadyExists}

\* C18: after concurrent Add and Set calls on one key exactly one call
\* succeeded and every losing Add returned errValueAlreadyExists; a Set
\* returns "id is not reserved" exactly when the key is absent as it runs,
\* and a losing Set returned that error or errValueAlreadyExists.
C18_AddSetRace ==
  [][/\ \A p \in Procs :
          RetStep(p, "Set") => ((res'[p].err = errNotReserved) = ~Has(values, AddID))
     /\ AddSetReturned' =>
          /\ OneSucceeded'
          /\ \A p \in Procs :
               /\ Returned(p, "Add")' => res'[p].err \in {NoError, errValueAlreadyExists}
               /\ Returned(p, "Set")' =>
                    res'[p].err \in {NoError, errValueAlreadyExists, errNotReserved}]_vars

\* On a new manager a Set ran before the winning Add and lost with "id is
\* not reserved".
C18_Witness ==
  /\ AddSetReturned
  /\ \E p \in Procs : Returned(p, "Set") /\ res[p].err = errNotReserved
  /\ \E p \in Procs : Succeeded(p, "Add")

\* The goroutines that were handed key k by a successful ReserveNextID or
\* Add and still use it.
Holders(k) ==
  {q \in Procs : /\ Succeeded(q, "ReserveNextID") \/ Succeeded(q, "Add")
                 /\ res[q].free = {k}}

\* C19: a release closure of key k removes k and nothing else whoever was
\* handed k in the meantime and still uses it; once k is absent, an Add of
\* k succeeds and a ReserveNextID whose scan reaches k first returns k,
\* also while earlier holders of k still use it.
C19_StaleClosure ==
  [][\A p \in Procs :
       /\ FreeStep(p) =>
            /\ ~Has(values', args[p].id)
            /\ SameExcept(values, values', args[p].id)
       /\ (RetStep(p, "Add") /\ ~Has(values, args[p].id)) =>
            /\ res'[p].err = NoError
            /\ res'[p].free = {args[p].id}
            /\ Has(values', args[p].id)
       /\ (RetStep(p, "ReserveNextID") /\ FirstAbsent(values, lstID) # lstID) =>
            /\ res'[p].err = NoError
            /\ res'[p].free = {FirstAbsent(values, lstID)}
            /\ Has(values', FirstAbsent(values, lstID))]_vars

\* Key AddID was handed out three times: to a first holder by
\* ReserveNextID, to a second by Add after a closure of the key ran, and
\* to a third by Add after a closure of the key removed the second
\* holder's entry; all three still use the key.
C19_Witness ==
  /\ Cardinality(Holders(AddID)) >= 3
  /\ \E q \in Holders(AddID) : args[q].op = "ReserveNextID"
  /\ Has(values, AddID)

\* C20: Add(id, nil) on an absent id and Set(id, nil) on a reserved-empty
\* id succeed and leave id in the table with nil, where Get finds nothing;
\* on an id stored with nil Get returns (nil, false), Pop fails with
\* errNotSet and Set succeeds; Set fails with errValueAlreadyExists
\* exactly on an id stored with a non-nil value.
C20_NilLeavesReserved ==
  [][\A p \in Procs :
       /\ (RetStep(p, "Add") /\ args[p].v = Nil /\ Slot(values, args[p].id) = "absent") =>
            /\ res'[p].err = NoError
            /\ Slot(values', args[p].id) = "reserved"
            /\ GetOn(values', args[p].id) = <<Nil, FALSE>>
       /\ (RetStep(p, "Set") /\ args[p].v = Nil /\ Slot(values, args[p].id) = "reserved") =>
            /\ res'[p].err = NoError
            /\ Slot(values', args[p].id) = "reserved"
            /\ GetOn(values', args[p].id) = <<Nil, FALSE>>
       /\ (GetRetStep(p) /\ Slot(values, args[p].id) = "reserved") =>
            res'[p].v = Nil /\ res'[p].ok = FALSE
       /\ (RetStep(p, "Pop") /\ Slot(values, args[p].id) = "reserved") =>
            /\ res'[p].err = errNotSet
            /\ values' = values
       /\ (RetStep(p, "Set") /\ Slot(values, args[p].id) = "reserved") =>
            /\ res'[p].err = NoError
            /\ values'[args[p].id] = args[p].v
       /\ RetStep(p, "Set") =>
            ((res'[p].err = errValueAlreadyExists) = (Slot(values, args[p].id) = "occupied"))]_vars

\* No id was ever reserved by ReserveNextID: a Set with a value has
\* succeeded on an id that Add stored with nil, and another id is still
\* stored with nil.
C20_Witness ==
  \E p \in Procs :
    /\ lstID = 0
    /\ Succeeded(p, "Set")
    /\ args[p].v # Nil
    /\ values[args[p].id] = args[p].v
    /\ \E k \in DOMAIN values : k # args[p].id /\ values[k] = Nil

====
